---- MODULE Spec2Model ----
(***************************************************************************)
(* Verification model of pva2pva:                                          *)
(*   - AnyScalar (common/anyscalar.h): the tagged scalar container, with   *)
(*     its raw storage, placement construction/destruction of the          *)
(*     std::string representation and the heap buffers those strings own.  *)
(*   - QSRV behaviours described in documentation/qsrvpage.h: timestamp    *)
(*     nanosecond split, group field triggers, PVA link defer and          *)
(*     monorder options.                                                   *)
(***************************************************************************)
EXTENDS Integers, Sequences, FiniteSets, TLC

VARIABLES
    \* AnyScalar objects: lifetime, _stype, _wrap.blob; the string heap; the
    \* undefined operations performed so far; the last client call
    live, stype, blob, heap, errs, last,
    \* timestamp option: record nanoseconds, "nsec:lsb:#", published timeStamp
    nsec, lsb, stampOut,
    \* group: +trigger of each field, field values, updates posted, last write
    trig, gval, snaps, gw,
    \* PVA output link: defer option, cached values, Puts started, the writes
    \* made since the last Put, the last operation
    ldefer, lcache, puts, lhist, lw,
    \* PVA input links on one target PV, in registration order; the records
    \* processed by the last subscription update
    mlinks, procLog

vars == <<live, stype, blob, heap, errs, last,
          nsec, lsb, stampOut,
          trig, gval, snaps, gw,
          ldefer, lcache, puts, lhist, lw,
          mlinks, procLog>>

asVars == <<live, stype, blob, heap, errs, last>>
stampVars == <<nsec, lsb, stampOut>>
groupVars == <<trig, gval, snaps, gw>>
linkVars == <<ldefer, lcache, puts, lhist, lw>>
monVars == <<mlinks, procLog>>

----------------------------------------------------------------------------
(* Bounds *)

\* number of AnyScalar variables the client code declares
NSlots == 2

Slots == 1..NSlots
\* address of the AnyScalar temporary made by operator=
TempObj == 0
\* address of the local std::string temp made inside swap()
StrTemp == NSlots + 1
Addrs == 0..(NSlots + 1)
\* heap buffers: one per slot, one for the temporary, one for swap's temp
Bufs == 1..(NSlots + 2)

----------------------------------------------------------------------------
(* Scalar types and values *)

pvNil == "nil"
pvString == "pvString"
pvInt == "pvInt"
Tags == {pvNil, pvString, pvInt}

\* C++ types usable as template arguments
TArgs == {"int32", "const int32", "std::string", "const char*"}

strip_const(T) ==
    IF T = "const int32" THEN "int32" ELSE T

any_storage_type(T) ==
    IF T = "const char*" THEN "std::string" ELSE T

\* types for which ScalarTypeID<> is specialised
HasScalarTypeID(T) == T \in {"int32", "std::string"}

ScalarTypeID(T) ==
    CASE T = "int32" -> pvInt
      [] T = "std::string" -> pvString

\* storage tag selected by ref<T>() and by the constructor
StorageTag(T) == ScalarTypeID(any_storage_type(strip_const(T)))

\* as<T>() needs ScalarTypeID<T2> of the stripped (unmapped) type
AsTypes == {T \in TArgs : HasScalarTypeID(strip_const(T))}
\* constructor argument types (by value, so never top-level const)
CtorTypes == {"int32", "std::string", "const char*"}

\* string contents are sequences of characters
StrVals == {<<>>, <<"7">>}
IntVals == {0, 7}

\* a C++ value of argument type T: n is the bit pattern, s the characters
ValsOf(T) ==
    IF StorageTag(T) = pvInt
    THEN {[n |-> i, s |-> <<>>] : i \in IntVals}
    ELSE {[n |-> 0, s |-> x] : x \in StrVals}

----------------------------------------------------------------------------
(* Memory: raw storage of each object and the string heap *)

Junk == [k |-> "junk", v |-> 0]
FreeBuf == [used |-> FALSE, s |-> <<>>]

\* the program memory as one value
Mem == [live |-> live, stype |-> stype, blob |-> blob, heap |-> heap,
        errs |-> errs]

SetMin(S) == CHOOSE x \in S : \A y \in S : x <= y

\* operator new: lowest free heap buffer
Alloc(m) ==
    LET free == {i \in Bufs : ~m.heap[i].used}
    IN IF free = {} THEN 0 ELSE SetMin(free)

\* new (blob) std::string(content)
NewString(m, x, content) ==
    LET id == Alloc(m)
    IN IF id = 0
       THEN [m EXCEPT !.errs = @ \cup {"bad_alloc"}]
       ELSE [m EXCEPT !.blob[x] = [k |-> "str", v |-> id],
                      !.heap[id] = [used |-> TRUE, s |-> content]]

\* is a constructed, undestroyed std::string at x
IsString(m, x) ==
    /\ m.blob[x].k = "str"
    /\ m.blob[x].v \in Bufs
    /\ m.heap[m.blob[x].v].used

\* (&_as<string>())->~string()
DestroyString(m, x) ==
    IF IsString(m, x)
    THEN [m EXCEPT !.heap[m.blob[x].v] = FreeBuf, !.blob[x] = Junk]
    ELSE [m EXCEPT !.errs = @ \cup {"destroy of unconstructed string"}]

\* std::string::swap
StringSwap(m, x, y) ==
    IF IsString(m, x) /\ IsString(m, y)
    THEN [m EXCEPT !.blob[x] = m.blob[y], !.blob[y] = m.blob[x]]
    ELSE [m EXCEPT !.errs = @ \cup {"use of unconstructed string"}]

\* memcpy(dst.blob, src.blob, sizeof(blob))
Memcpy(m, dst, src) == [m EXCEPT !.blob[dst] = m.blob[src]]

\* std::swap(o._wrap.blob, _wrap.blob)
BlobSwap(m, x, y) ==
    [m EXCEPT !.blob[x] = m.blob[y], !.blob[y] = m.blob[x]]

\* characters of the string stored at x
StrAt(m, x) ==
    IF IsString(m, x) THEN m.heap[m.blob[x].v].s ELSE <<"<", "?", ">">>

----------------------------------------------------------------------------
(* AnyScalar member functions as memory transformers *)

\* AnyScalar() : _stype((ScalarType)-1) {}
ctor_default(m, x) ==
    [m EXCEPT !.live[x] = TRUE, !.stype[x] = pvNil, !.blob[x] = Junk]

\* faulty variant: the string is default-constructed, v is dropped
ctor_value_dropv(m, x, T, v) ==
    LET TT == any_storage_type(strip_const(T))
        m0 == [m EXCEPT !.live[x] = TRUE, !.blob[x] = Junk]
        m1 == IF TT = "std::string"
              THEN NewString(m0, x, <<>>)
              ELSE [m0 EXCEPT !.blob[x] = [k |-> "raw", v |-> v.n]]
    IN [m1 EXCEPT !.stype[x] = ScalarTypeID(TT)]

\* template<typename T> explicit AnyScalar(T v)
ctor_value(m, x, T, v) ==
    LET TT == any_storage_type(strip_const(T))
        m0 == [m EXCEPT !.live[x] = TRUE, !.blob[x] = Junk]
        m1 == IF TT = "std::string"
              THEN NewString(m0, x, v.s)
              ELSE [m0 EXCEPT !.blob[x] = [k |-> "raw", v |-> v.n]]
    IN [m1 EXCEPT !.stype[x] = ScalarTypeID(TT)]

\* faulty variant: the blob is copied bitwise whatever the tag
ctor_copy_bitwise(m, x, o) ==
    Memcpy([m EXCEPT !.live[x] = TRUE, !.blob[x] = Junk,
                     !.stype[x] = m.stype[o]], x, o)

\* AnyScalar(const AnyScalar& o)
ctor_copy(m, x, o) ==
    LET m0 == [m EXCEPT !.live[x] = TRUE, !.blob[x] = Junk,
                        !.stype[x] = m.stype[o]]
    IN IF m.stype[o] = pvString
       THEN IF IsString(m0, o)
            THEN NewString(m0, x, StrAt(m0, o))
            ELSE [m0 EXCEPT !.errs = @ \cup {"use of unconstructed string"}]
       ELSE Memcpy(m0, x, o)

\* ~AnyScalar()
dtor(m, x) ==
    LET m1 == IF m.stype[x] = pvString THEN DestroyString(m, x) ELSE m
    IN [m1 EXCEPT !.live[x] = FALSE, !.stype[x] = pvNil, !.blob[x] = Junk]

\* faulty variant: the emptied string is not destroyed before the memcpy
swap_str_raw_nodtor(m, s, n) ==
    LET t0 == NewString(m, StrTemp, <<>>)
        t1 == StringSwap(t0, StrTemp, s)
        t3 == Memcpy(t1, s, n)
        t4 == NewString(t3, n, <<>>)
        t5 == StringSwap(t4, StrTemp, n)
    IN DestroyString(t5, StrTemp)

\* the std::string temp of the string <-> non-string cases of swap():
\* s is the string-tagged side, n the other side
swap_str_raw(m, s, n) ==
    LET t0 == NewString(m, StrTemp, <<>>)
        t1 == StringSwap(t0, StrTemp, s)
        t2 == DestroyString(t1, s)
        t3 == Memcpy(t2, s, n)
        t4 == NewString(t3, n, <<>>)
        t5 == StringSwap(t4, StrTemp, n)
    IN DestroyString(t5, StrTemp)

\* faulty variant: the new string is never swapped with the old one
swap_nil_str_noswap(m, d, s) == DestroyString(NewString(m, d, <<>>), s)

\* the nil <-> string cases of swap(): d is the nil side, s the string side
swap_nil_str(m, d, s) ==
    LET t0 == NewString(m, d, <<>>)
        t1 == StringSwap(t0, d, s)
    IN DestroyString(t1, s)

\* void swap(AnyScalar& o)
swap(m, x, o) ==
    LET a == m.stype[x]
        b == m.stype[o]
        m1 == CASE a = pvNil /\ b = pvNil -> m
                [] a = pvNil /\ b = pvString -> swap_nil_str(m, x, o)
                [] a = pvNil /\ b \notin {pvNil, pvString} -> Memcpy(m, x, o)
                [] a = pvString /\ b = pvNil -> swap_nil_str(m, o, x)
                [] a = pvString /\ b = pvString -> StringSwap(m, x, o)
                [] a = pvString /\ b \notin {pvNil, pvString} ->
                       swap_str_raw(m, x, o)
                [] a \notin {pvNil, pvString} /\ b = pvNil -> Memcpy(m, o, x)
                [] a \notin {pvNil, pvString} /\ b = pvString ->
                       swap_str_raw(m, o, x)
                [] OTHER -> BlobSwap(m, x, o)
    IN [m1 EXCEPT !.stype[x] = m1.stype[o], !.stype[o] = m1.stype[x]]

\* AnyScalar& operator=(const AnyScalar& o)
assign_copy(m, x, o) == dtor(swap(ctor_copy(m, TempObj, o), TempObj, x), TempObj)

\* template<typename T> AnyScalar& operator=(T v)
assign_value(m, x, T, v) ==
    dtor(swap(ctor_value(m, TempObj, T, v), TempObj, x), TempObj)

----------------------------------------------------------------------------
(* Value conversion used by as<T>() *)

Digits == <<"0", "1", "2", "3", "4", "5", "6", "7", "8", "9">>
IsDigit(c) == \E i \in 1..10 : Digits[i] = c
DigitVal(c) == (CHOOSE i \in 1..10 : Digits[i] = c) - 1

RECURSIVE PrintNat(_)
PrintNat(n) ==
    IF n < 10 THEN <<Digits[n + 1]>>
    ELSE PrintNat(n \div 10) \o <<Digits[(n % 10) + 1]>>

RECURSIVE ParseNat(_, _)
ParseNat(s, acc) ==
    IF s = <<>> THEN acc ELSE ParseNat(Tail(s), acc * 10 + DigitVal(Head(s)))

CanParseNat(s) == s /= <<>> /\ \A i \in 1..Len(s) : IsDigit(s[i])

NoExc == "none"
Ret(n, s) == [exc |-> NoExc, n |-> n, s |-> s]
Throw(e) == [exc |-> e, n |-> 0, s |-> <<>>]

\* epics::pvData::castUnsafeV(1, to, &ret, from, src) for one element;
\* src is the source element ([n, s])
castUnsafeV(to, from, src) ==
    CASE to = from -> Ret(src.n, src.s)
      [] to = pvString /\ from = pvInt -> Ret(0, PrintNat(src.n))
      [] to = pvInt /\ from = pvString ->
             IF CanParseNat(src.s) THEN Ret(ParseNat(src.s, 0), <<>>)
             ELSE Throw("runtime_error")

\* the element stored in x's blob, read at the type its tag names
Stored(m, x) ==
    IF m.stype[x] = pvString THEN [n |-> 0, s |-> StrAt(m, x)]
    ELSE [n |-> m.blob[x].v, s |-> <<>>]

\* faulty variant: an empty value passes the tag test
ref_nilpass(m, x, T) ==
    IF m.stype[x] /= StorageTag(T) /\ m.stype[x] /= pvNil THEN Throw("bad_cast")
    ELSE Ret(IF m.stype[x] = pvString THEN 0 ELSE m.blob[x].v,
             IF m.stype[x] = pvString THEN StrAt(m, x) ELSE <<>>)

\* template<typename T> ... ref(): the reference is either an exception or
\* the address of the stored representation, whose value is returned here
ref(m, x, T) ==
    IF m.stype[x] /= StorageTag(T) THEN Throw("bad_cast")
    ELSE Ret(Stored(m, x).n, Stored(m, x).s)

\* faulty variant: the tag test of ref<T>() is applied to as<T>()
as_strict(m, x, T) ==
    IF m.stype[x] /= ScalarTypeID(strip_const(T)) THEN Throw("bad_cast")
    ELSE [exc |-> NoExc,
          n |-> IF m.stype[x] = pvString THEN 0 ELSE m.blob[x].v,
          s |-> IF m.stype[x] = pvString THEN StrAt(m, x) ELSE <<>>]

\* template<typename T> T as() const
as(m, x, T) ==
    IF m.stype[x] = pvNil THEN Throw("bad_cast")
    ELSE castUnsafeV(ScalarTypeID(strip_const(T)), m.stype[x], Stored(m, x))

\* a.ref<T>() = w : store through the returned reference
ref_store(m, x, T, w) ==
    IF ref(m, x, T).exc /= NoExc THEN m
    ELSE IF StorageTag(T) = pvString
         THEN IF IsString(m, x)
              THEN [m EXCEPT !.heap[m.blob[x].v].s = w.s]
              ELSE [m EXCEPT !.errs = @ \cup {"use of unconstructed string"}]
         ELSE [m EXCEPT !.blob[x] = [k |-> "raw", v |-> w.n]]

\* type() / empty() and the value a client can observe through x
type(m, x) == m.stype[x]
empty(m, x) == m.stype[x] = pvNil
Obs(m, x) ==
    IF empty(m, x) THEN [t |-> pvNil, n |-> 0, s |-> <<>>]
    ELSE [t |-> type(m, x), n |-> Stored(m, x).n, s |-> Stored(m, x).s]

----------------------------------------------------------------------------
(* AnyScalar client operations *)

\* the last call made by the client and whether it threw
NoOp == [op |-> "init", exc |-> NoExc]
Op(op, r) == [op |-> op, exc |-> r.exc]

Commit(m) ==
    /\ live' = m.live
    /\ stype' = m.stype
    /\ blob' = m.blob
    /\ heap' = m.heap
    /\ errs' = m.errs

OthersA == UNCHANGED <<stampVars, groupVars, linkVars, monVars>>

\* AnyScalar x;
DefaultConstruct(x) ==
    /\ ~live[x]
    /\ Commit(ctor_default(Mem, x))
    /\ last' = Op("ctor", Ret(0, <<>>))
    /\ OthersA

\* AnyScalar x(v);
ValueConstruct(x, T, v) ==
    /\ ~live[x]
    /\ Commit(ctor_value(Mem, x, T, v))
    /\ last' = Op("ctor_value", Ret(v.n, v.s))
    /\ OthersA

\* AnyScalar x(o);
CopyConstruct(x, o) ==
    /\ ~live[x] /\ live[o]
    /\ Commit(ctor_copy(Mem, x, o))
    /\ last' = Op("ctor_copy", Ret(0, <<>>))
    /\ OthersA

\* x goes out of scope
Destroy(x) ==
    /\ live[x]
    /\ Commit(dtor(Mem, x))
    /\ last' = Op("dtor", Ret(0, <<>>))
    /\ OthersA

\* x = o;
CopyAssign(x, o) ==
    /\ live[x] /\ live[o]
    /\ Commit(assign_copy(Mem, x, o))
    /\ last' = Op("assign_copy", Ret(0, <<>>))
    /\ OthersA

\* x = v;
ValueAssign(x, T, v) ==
    /\ live[x]
    /\ Commit(assign_value(Mem, x, T, v))
    /\ last' = Op("assign_value", Ret(v.n, v.s))
    /\ OthersA

\* x.swap(o);
Swap(x, o) ==
    /\ live[x] /\ live[o]
    /\ Commit(swap(Mem, x, o))
    /\ last' = Op(IF x = o THEN "swap_self" ELSE "swap", Ret(0, <<>>))
    /\ OthersA

\* x.ref<T>();
Ref(x, T) ==
    /\ live[x]
    /\ last' = Op("ref", ref(Mem, x, T))
    /\ UNCHANGED <<live, stype, blob, heap, errs>>
    /\ OthersA

\* x.ref<T>() = w;  (a throwing ref<T>() is the Ref step)
RefStore(x, T, w) ==
    /\ live[x]
    /\ ref(Mem, x, T).exc = NoExc
    /\ Commit(ref_store(Mem, x, T, w))
    /\ last' = Op("ref_store", Ret(w.n, w.s))
    /\ OthersA

\* x.as<T>();
As(x, T) ==
    /\ live[x]
    /\ last' = Op("as", as(Mem, x, T))
    /\ UNCHANGED <<live, stype, blob, heap, errs>>
    /\ OthersA

\* the parts of the program a specification does not exercise
IdleStamp ==
    /\ nsec = <<0, 0>> /\ lsb = 0
    /\ stampOut = [userTag |-> <<0, 0>>, nanoseconds |-> <<0, 0>>]
IdleGroup == trig = <<>> /\ gval = <<>> /\ snaps = <<>> /\ gw = <<>>
IdleLink ==
    ldefer = FALSE /\ lcache = <<>> /\ puts = <<>> /\ lhist = <<>> /\ lw = <<>>
IdleMon == mlinks = <<>> /\ procLog = <<>>

InitA ==
    /\ live = [x \in Addrs |-> FALSE]
    /\ stype = [x \in Addrs |-> pvNil]
    /\ blob = [x \in Addrs |-> Junk]
    /\ heap = [i \in Bufs |-> FreeBuf]
    /\ errs = {}
    /\ last = NoOp

Init == InitA /\ IdleStamp /\ IdleGroup /\ IdleLink /\ IdleMon

Next ==
    \/ \E x \in Slots : DefaultConstruct(x)
    \/ \E x \in Slots, T \in CtorTypes : \E v \in ValsOf(T) :
           ValueConstruct(x, T, v)
    \/ \E x, o \in Slots : CopyConstruct(x, o)
    \/ \E x \in Slots : Destroy(x)
    \/ \E x, o \in Slots : CopyAssign(x, o)
    \/ \E x \in Slots, T \in CtorTypes : \E v \in ValsOf(T) :
           ValueAssign(x, T, v)
    \/ \E x, o \in Slots : Swap(x, o)
    \/ \E x \in Slots, T \in TArgs : Ref(x, T)
    \/ \E x \in Slots, T \in TArgs : \E w \in ValsOf(T) : RefStore(x, T, w)
    \/ \E x \in Slots, T \in AsTypes : As(x, T)

Spec == Init /\ [][Next]_vars

----------------------------------------------------------------------------
(* Properties of AnyScalar *)

LiveSlots == {x \in Slots : live[x]}
DeadSlots == {x \in Slots : ~live[x]}

\* every call a client can make next that changes memory: the memory it
\* leaves (m) and the AnyScalar objects it is applied to (t)
Calls ==
    {[m |-> ctor_default(Mem, x), t |-> {x}] : x \in DeadSlots}
    \cup UNION {{[m |-> ctor_value(Mem, x, T, v), t |-> {x}] :
                   v \in ValsOf(T)} : x \in DeadSlots, T \in CtorTypes}
    \cup {[m |-> ctor_copy(Mem, x, o), t |-> {x}] :
             x \in DeadSlots, o \in LiveSlots}
    \cup {[m |-> dtor(Mem, x), t |-> {x}] : x \in LiveSlots}
    \cup {[m |-> assign_copy(Mem, x, o), t |-> {x}] :
             x \in LiveSlots, o \in LiveSlots}
    \cup UNION {{[m |-> assign_value(Mem, x, T, v), t |-> {x}] :
                   v \in ValsOf(T)} : x \in LiveSlots, T \in CtorTypes}
    \cup {[m |-> swap(Mem, x, o), t |-> {x, o}] :
             x \in LiveSlots, o \in LiveSlots}
    \cup UNION {{[m |-> ref_store(Mem, c[1], c[2], w), t |-> {c[1]}] :
                   w \in ValsOf(c[2])} :
                c \in {d \in LiveSlots \X TArgs :
                          ref(Mem, d[1], d[2]).exc = NoExc}}

\* C1: for every pair of live AnyScalar a, b (tags nil, string or
\* non-string), one a.swap(b) leaves a with b's former tag and value and b
\* with a's, and a second a.swap(b) restores the tag and value of both.
C1_SwapInvolution ==
    \A x \in LiveSlots, o \in LiveSlots :
        LET m1 == swap(Mem, x, o)
            m2 == swap(m1, x, o)
        IN /\ Obs(m1, x) = Obs(Mem, o)
           /\ Obs(m1, o) = Obs(Mem, x)
           /\ Obs(m2, x) = Obs(Mem, x)
           /\ Obs(m2, o) = Obs(Mem, o)

\* a swap has just exchanged a nil with a string (the only two objects)
C1_Witness ==
    /\ last.op = "swap"
    /\ Cardinality(LiveSlots) = 2
    /\ \E x \in LiveSlots : stype[x] = pvNil
    /\ \E x \in LiveSlots : stype[x] = pvString

\* C2: after any sequence of construction, copy-assignment,
\* value-assignment, swap and destruction, every live AnyScalar holds a
\* constructed string exactly when its tag is string, every allocated string
\* buffer is owned by exactly one live string-tagged AnyScalar (no leak), and
\* no string was destroyed while unconstructed or already destroyed.
C2_ValidNoLeak ==
    /\ \A x \in LiveSlots : IsString(Mem, x) <=> stype[x] = pvString
    /\ \A i \in Bufs : heap[i].used =>
           Cardinality({x \in LiveSlots :
               stype[x] = pvString /\ blob[x] = [k |-> "str", v |-> i]}) = 1
    /\ \A x \in Addrs \ LiveSlots : blob[x].k /= "str"
    /\ errs = {}

\* a swap has just exchanged a string with an int (the only two objects),
\* through the std::string temp, and one string buffer is allocated
C2_Witness ==
    /\ last.op = "swap"
    /\ Cardinality(LiveSlots) = 2
    /\ \E x \in LiveSlots : stype[x] = pvInt
    /\ \E x \in LiveSlots : stype[x] = pvString
    /\ Cardinality({i \in Bufs : heap[i].used}) = 1

\* C3: ref<T>() throws bad_cast exactly when the live tag differs from the
\* tag T maps to (const char* maps to string), so always on an empty value;
\* with equal tags it returns the stored representation unconverted.  (A
\* ref<T>() call writes nothing: Ref leaves the memory unchanged.)
C3_RefStrict ==
    /\ \A x \in LiveSlots, T \in TArgs :
           LET r == ref(Mem, x, T)
           IN /\ (r.exc = "bad_cast") <=> (stype[x] /= StorageTag(T))
              /\ r.exc \in {NoExc, "bad_cast"}
              /\ stype[x] = pvNil => r.exc = "bad_cast"
    /\ \A x \in DeadSlots, T \in CtorTypes : \A v \in ValsOf(T) :
           ref(ctor_value(Mem, x, T, v), x, T) = Ret(v.n, v.s)

\* ref<T>() has just thrown bad_cast and every live AnyScalar is a string
C3_Witness ==
    /\ last.op = "ref" /\ last.exc = "bad_cast"
    /\ LiveSlots /= {}
    /\ \A x \in LiveSlots : stype[x] = pvString

\* C4: as<T>() throws bad_cast exactly when the value is empty; on a
\* non-empty value, also with T different from the stored tag, it does not
\* throw bad_cast.  (as<T>() is const: As leaves the memory unchanged.)
C4_AsBadCast ==
    /\ \A x \in LiveSlots, T \in AsTypes :
           (as(Mem, x, T).exc = "bad_cast") <=> (stype[x] = pvNil)

\* as<int32>() has just failed to parse a string, which is not a bad_cast
C4_Witness ==
    /\ last.op = "as" /\ last.exc = "runtime_error"
    /\ \E x \in LiveSlots : stype[x] = pvString

\* C5: an AnyScalar constructed or value-assigned from a value v of type T
\* has the tag mapped from T and as<T>() returns v; after a store of w
\* through ref<T>(), as<T>() returns w; and what as<T>() returns for an
\* AnyScalar is not changed by any call made on other AnyScalar objects.
C5_RoundTrip ==
    /\ \A x \in DeadSlots, T \in CtorTypes : \A v \in ValsOf(T) :
           LET m1 == ctor_value(Mem, x, T, v)
           IN /\ m1.stype[x] = StorageTag(T)
              /\ T \in AsTypes => as(m1, x, T) = Ret(v.n, v.s)
    /\ \A x \in LiveSlots, T \in CtorTypes : \A v \in ValsOf(T) :
           LET m1 == assign_value(Mem, x, T, v)
           IN /\ m1.stype[x] = StorageTag(T)
              /\ T \in AsTypes => as(m1, x, T) = Ret(v.n, v.s)
    /\ \A x \in LiveSlots, T \in AsTypes : \A w \in ValsOf(T) :
           ref(Mem, x, T).exc = NoExc =>
               as(ref_store(Mem, x, T, w), x, T) = Ret(w.n, w.s)
    /\ \A c \in Calls : \A x \in LiveSlots \ c.t, T \in AsTypes :
           as(c.m, x, T) = as(Mem, x, T)

\* a value has just been stored through ref<T>() into the only object, a
\* string
C5_Witness ==
    /\ last.op = "ref_store"
    /\ Cardinality(LiveSlots) = 1
    /\ \E x \in LiveSlots :
           as(Mem, x, "std::string") = Ret(0, <<"7">>) /\ stype[x] = pvString

\* C6: copy-constructing or copy-assigning from a string-tagged AnyScalar
\* leaves the source unchanged and gives the destination an equal value in
\* string storage of its own; and no call on one AnyScalar (store through
\* ref, assignment, swap, destruction) changes the tag or value observed
\* through another.
C6_DeepCopy ==
    /\ \A x \in DeadSlots, o \in LiveSlots :
           stype[o] = pvString =>
               LET m1 == ctor_copy(Mem, x, o)
               IN /\ Obs(m1, x) = Obs(Mem, o)
                  /\ Obs(m1, o) = Obs(Mem, o)
                  /\ m1.blob[x] /= m1.blob[o]
    /\ \A x \in LiveSlots, o \in LiveSlots :
           stype[o] = pvString =>
               LET m1 == assign_copy(Mem, x, o)
               IN /\ Obs(m1, x) = Obs(Mem, o)
                  /\ Obs(m1, o) = Obs(Mem, o)
                  /\ x /= o => m1.blob[x] /= m1.blob[o]
    /\ \A c \in Calls : \A x \in LiveSlots \ c.t :
           c.m.live[x] /\ Obs(c.m, x) = Obs(Mem, x)

\* a string has just been copy-constructed from the only other object
C6_Witness ==
    /\ last.op = "ctor_copy"
    /\ Cardinality(LiveSlots) = 2
    /\ \E x \in LiveSlots, o \in LiveSlots :
           /\ x /= o /\ stype[o] = pvString /\ stype[x] = pvString
           /\ StrAt(Mem, o) = StrAt(Mem, x) /\ blob[x] /= blob[o]

----------------------------------------------------------------------------
(* AnyScalar move constructor (C++11 builds) *)

\* what a build can make of an assignment to a std::string that was never
\* constructed: the bytes happen to pass for an empty string, which then
\* adopts the source's buffer, or they do not and the destination stays
\* garbage
MoveOutcomes == {"adopts", "garbage"}

\* std::string::operator=(std::string&&) at x from o
move_assign_string(m, x, o, outcome) ==
    IF ~IsString(m, o)
    THEN [m EXCEPT !.errs = @ \cup {"use of unconstructed string"}]
    ELSE IF IsString(m, x)
    THEN [m EXCEPT !.blob[x] = m.blob[o], !.blob[o] = m.blob[x],
                   !.heap[m.blob[x].v].s = <<>>]
    ELSE LET e == [m EXCEPT !.errs =
                       @ \cup {"assignment to unconstructed string"}]
         IN IF outcome = "adopts"
            THEN NewString([e EXCEPT !.blob[x] = m.blob[o]], o, <<>>)
            ELSE e

\* AnyScalar(AnyScalar&& o)
ctor_move(m, x, o, outcome) ==
    LET m0 == [m EXCEPT !.live[x] = TRUE, !.blob[x] = Junk,
                        !.stype[x] = m.stype[o]]
        m1 == IF m.stype[o] = pvString
              THEN move_assign_string(m0, x, o, outcome)
              ELSE Memcpy(m0, x, o)
    IN [m1 EXCEPT !.stype[o] = pvNil]

\* AnyScalar x(std::move(o));
MoveConstruct(x, o, outcome) ==
    /\ ~live[x] /\ live[o]
    /\ Commit(ctor_move(Mem, x, o, outcome))
    /\ last' = [op |-> "ctor_move", exc |-> NoExc, dst |-> x, src |-> o,
                pre |-> Obs(Mem, o)]
    /\ OthersA

NextMove ==
    \/ \E x \in Slots : DefaultConstruct(x)
    \/ \E x \in Slots, T \in CtorTypes : \E v \in ValsOf(T) :
           ValueConstruct(x, T, v)
    \/ \E x, o \in Slots : \E outcome \in MoveOutcomes :
           MoveConstruct(x, o, outcome)
    \/ \E x \in Slots : Destroy(x)

SpecMove == Init /\ [][NextMove]_vars

\* C11: after a move construction the destination holds the source's
\* former tag and value and the source is empty; no string was assigned to
\* before it was constructed, the source's string object has been destroyed,
\* and a constructed string sits in an AnyScalar exactly when its tag is
\* string, every string buffer being owned by one such AnyScalar.
C11_MoveConstruct ==
    last.op = "ctor_move" =>
        /\ live[last.dst] /\ live[last.src]
        /\ Obs(Mem, last.dst) = last.pre
        /\ stype[last.src] = pvNil
        /\ errs = {}
        /\ blob[last.src].k /= "str"
        /\ \A x \in LiveSlots : IsString(Mem, x) <=> stype[x] = pvString
        /\ \A i \in Bufs : heap[i].used =>
               Cardinality({x \in LiveSlots :
                   stype[x] = pvString /\ blob[x] = [k |-> "str", v |-> i]}) = 1

----------------------------------------------------------------------------
(* QSRV timestamp option "Q:time:tag" = "nsec:lsb:#" *)

\* width of the nanoseconds value
NsecBits == 32

\* a 32-bit value is held as its two 16-bit halves <<high, low>>
Half == NsecBits \div 2

RECURSIVE Pow2(_)
Pow2(k) == IF k = 0 THEN 1 ELSE 2 * Pow2(k - 1)

Word(hi, lo) == <<hi, lo>>
\* the low k bits of a half, and the half with its low k bits shifted out
LowBits(h, k) == h % Pow2(k)
HighBits(h, k) == h \div Pow2(k)

\* nanosecond values of record timestamps: 0, 1, 0x12345678, 999999999,
\* 0x000FFFFF, 0x00100000, 0x80000000, 0xFFFFFFFF
NsecSamples == {Word(0, 0), Word(0, 1), Word(4660, 22136),
                Word(15258, 51711), Word(15, 65535), Word(16, 0),
                Word(32768, 0), Word(65535, 65535)}

\* faulty variant: the remaining bits are shifted down
SplitNsecShifted(n, k) ==
    IF k <= Half
    THEN [userTag |-> Word(0, LowBits(n[2], k)),
          nanoseconds |-> Word(HighBits(n[1], k),
                               LowBits(n[1], k) * Pow2(Half - k)
                                   + HighBits(n[2], k))]
    ELSE [userTag |-> Word(LowBits(n[1], k - Half), n[2]),
          nanoseconds |-> Word(0, HighBits(n[1], k - Half))]

\* the least significant k bits go to timeStamp.userTag, the remaining
\* 32-k bits stay in timeStamp.nanoseconds, without shifting
SplitNsec(n, k) ==
    IF k <= Half
    THEN [userTag |-> Word(0, LowBits(n[2], k)),
          nanoseconds |-> Word(n[1], HighBits(n[2], k) * Pow2(k))]
    ELSE [userTag |-> Word(LowBits(n[1], k - Half), n[2]),
          nanoseconds |-> Word(HighBits(n[1], k - Half) * Pow2(k - Half), 0)]

OthersS == UNCHANGED <<asVars, groupVars, linkVars, monVars>>

\* a record with info(Q:time:tag, "nsec:lsb:<lsb>") is published with
\* nanoseconds n in its timestamp
PostStamp(n) ==
    /\ nsec' = n
    /\ stampOut' = SplitNsec(n, lsb)
    /\ UNCHANGED lsb
    /\ OthersS

InitStamp ==
    /\ InitA /\ IdleGroup /\ IdleLink /\ IdleMon
    /\ lsb \in 0..NsecBits
    /\ nsec = Word(0, 0)
    /\ stampOut = SplitNsec(nsec, lsb)

NextStamp == \E n \in NsecSamples : PostStamp(n)

SpecStamp == InitStamp /\ [][NextStamp]_vars

\* bit i (0 = least significant) of a 32-bit value
Bit(w, i) ==
    IF i < Half THEN (w[2] \div Pow2(i)) % 2 ELSE (w[1] \div Pow2(i - Half)) % 2

\* C7: for every 32-bit nanoseconds value n and width k in 0..32, the tag is
\* the low k bits of n and nanoseconds is n with its low k bits cleared, both
\* unshifted, so tag + nanoseconds = n; k = 0 gives tag 0 and nanoseconds n,
\* k = 32 moves every bit to the tag, and 0x12345678 with k = 20 gives tag
\* 0x45678 and nanoseconds 0x12300000.
C7_StampSplit ==
    /\ \A i \in 0..(NsecBits - 1) :
           /\ Bit(stampOut.userTag, i) = (IF i < lsb THEN Bit(nsec, i) ELSE 0)
           /\ Bit(stampOut.nanoseconds, i) =
                  (IF i < lsb THEN 0 ELSE Bit(nsec, i))
    /\ \A h \in 1..2 :
           /\ stampOut.userTag[h] \in 0..(Pow2(Half) - 1)
           /\ stampOut.nanoseconds[h] \in 0..(Pow2(Half) - 1)
           /\ stampOut.userTag[h] + stampOut.nanoseconds[h] = nsec[h]
    /\ lsb = 0 =>
           (stampOut.userTag = Word(0, 0) /\ stampOut.nanoseconds = nsec)
    /\ lsb = NsecBits =>
           (stampOut.userTag = nsec /\ stampOut.nanoseconds = Word(0, 0))
    /\ (nsec = Word(4660, 22136) /\ lsb = 20) =>
           /\ stampOut.userTag = Word(4, 22136)
           /\ stampOut.nanoseconds = Word(4656, 0)

\* 0x12345678 has been split with "nsec:lsb:20" into 0x45678 and 0x12300000
C7_Witness ==
    /\ nsec = Word(4660, 22136) /\ lsb = 20
    /\ stampOut = [userTag |-> Word(4, 22136), nanoseconds |-> Word(4656, 0)]

----------------------------------------------------------------------------
(* QSRV group field update triggers *)

\* number of field changes followed
MaxWrites == 3

Fields == {"A", "B"}
FieldVals == {0, 1}
\* +trigger of a field: "" is {}, "*" is {"*"}, else the listed field names
TrigCfgs == {{}, {"*"}} \cup (SUBSET Fields \ {{}})

\* faulty variant: the changed field is always part of the update
TrigFieldsSelf(cfg, f) ==
    IF "*" \in cfg[f] THEN Fields ELSE cfg[f] \cup {f}

\* the fields a change to field f puts into the group update
TrigFields(cfg, f) ==
    IF "*" \in cfg[f] THEN Fields ELSE cfg[f]

\* the group updates posted when field f changes, given the new values
GroupUpdates(cfg, vals, f) ==
    IF TrigFields(cfg, f) = {} THEN <<>>
    ELSE << [g \in TrigFields(cfg, f) |-> vals[g]] >>

OthersG == UNCHANGED <<asVars, stampVars, linkVars, monVars>>

\* the record behind field f changes to v
FieldChange(f, v) ==
    /\ Len(gw) < MaxWrites
    /\ gval' = [gval EXCEPT ![f] = v]
    /\ snaps' = snaps \o GroupUpdates(trig, gval', f)
    /\ gw' = Append(gw, [f |-> f, pre |-> Len(snaps)])
    /\ UNCHANGED trig
    /\ OthersG

InitGroup ==
    /\ InitA /\ IdleStamp /\ IdleLink /\ IdleMon
    /\ trig \in [Fields -> TrigCfgs]
    /\ gval = [f \in Fields |-> 0]
    /\ snaps = <<>>
    /\ gw = <<>>

NextGroup == \E f \in Fields, v \in FieldVals : FieldChange(f, v)

SpecGroup == InitGroup /\ [][NextGroup]_vars

\* the last field change, and the updates it posted
LastWrite == gw[Len(gw)]
LastPosted == SubSeq(snaps, LastWrite.pre + 1, Len(snaps))
\* the group of the example: A has trigger "*", B has trigger "A"
ExampleGroup == trig = [f \in Fields |-> IF f = "A" THEN {"*"} ELSE {"A"}]

\* the general rule: a change to a field with a non-empty trigger posts
\* exactly one update holding the current values of exactly the fields the
\* trigger names (all fields for "*"); an empty trigger posts nothing
TriggerRule ==
    gw /= <<>> =>
        LET t == trig[LastWrite.f]
        IN IF t = {} THEN LastPosted = <<>>
           ELSE /\ Len(LastPosted) = 1
                /\ DOMAIN LastPosted[1] = (IF t = {"*"} THEN Fields ELSE t)
                /\ \A g \in DOMAIN LastPosted[1] : LastPosted[1][g] = gval[g]

\* C8 (as amended): the general rule holds, and in the group with A
\* (trigger "*") and B (trigger "A") every write to A posts one update with
\* both A and B and every write to B posts one update with exactly A.
C8_Triggers ==
    /\ TriggerRule
    /\ (ExampleGroup /\ gw /= <<>>) =>
           /\ Len(LastPosted) = 1
           /\ DOMAIN LastPosted[1] =
                  (IF LastWrite.f = "A" THEN {"A", "B"} ELSE {"A"})
    /\ Len(snaps) =
           Cardinality({i \in 1..Len(gw) : trig[gw[i].f] /= {}})

\* B has been written, after A, in the example group
C8_Witness ==
    /\ ExampleGroup /\ Len(gw) >= 2
    /\ LastWrite.f = "B" /\ gw[Len(gw) - 1].f = "A"
    /\ Len(snaps) = Len(gw)

\* C8 as stated: the general rule, and in the example group every write to
\* A posts one update with A and B and every write to B posts no update
C8_AsStated ==
    /\ TriggerRule
    /\ (ExampleGroup /\ gw /= <<>>) =>
           IF LastWrite.f = "A"
           THEN Len(LastPosted) = 1 /\ DOMAIN LastPosted[1] = {"A", "B"}
           ELSE LastPosted = <<>>

----------------------------------------------------------------------------
(* PVA output link: defer *)

\* number of link operations followed
MaxLinkOps == 3

SubFields == {"X", "Y"}
PutVals == {1, 2}
NoCache == [p \in {} |-> 0]

\* function f with p mapped to v (p added to the domain when new)
Merge(f, p, v) ==
    [q \in DOMAIN f \cup {p} |-> IF q = p THEN v ELSE f[q]]

\* faulty variant: the cached value is put at once and kept cached
link_write_eager(defer, cache, started, p, v) ==
    [cache |-> IF defer THEN Merge(cache, p, v) ELSE cache,
     puts |-> Append(started, Merge(NoCache, p, v))]

\* a write of v to sub-field p through the link: defer=true stores the new
\* value in the internal cache and starts no Put, defer=false starts a Put
link_write(defer, cache, started, p, v) ==
    IF defer
    THEN [cache |-> Merge(cache, p, v), puts |-> started]
    ELSE [cache |-> cache, puts |-> Append(started, Merge(NoCache, p, v))]

\* the flush of the cache: a single Put with every cached sub-field
link_flush(cache, started) ==
    IF DOMAIN cache = {} THEN [cache |-> cache, puts |-> started]
    ELSE [cache |-> NoCache, puts |-> Append(started, cache)]

OthersL == UNCHANGED <<asVars, stampVars, groupVars, monVars>>

LinkWrite(p, v) ==
    /\ Len(lw) < MaxLinkOps
    /\ LET r == link_write(ldefer, lcache, puts, p, v)
       IN lcache' = r.cache /\ puts' = r.puts
    /\ lhist' = Append(lhist, [p |-> p, v |-> v])
    /\ lw' = Append(lw, [op |-> "write", pre |-> Len(puts), hist |-> lhist])
    /\ UNCHANGED ldefer
    /\ OthersL

LinkFlush ==
    /\ Len(lw) < MaxLinkOps
    /\ LET r == link_flush(lcache, puts)
       IN lcache' = r.cache /\ puts' = r.puts
    /\ lhist' = <<>>
    /\ lw' = Append(lw, [op |-> "flush", pre |-> Len(puts), hist |-> lhist])
    /\ UNCHANGED ldefer
    /\ OthersL

InitLink ==
    /\ InitA /\ IdleStamp /\ IdleGroup /\ IdleMon
    /\ ldefer \in BOOLEAN
    /\ lcache = NoCache
    /\ puts = <<>>
    /\ lhist = <<>>
    /\ lw = <<>>

NextLink ==
    \/ \E p \in SubFields, v \in PutVals : LinkWrite(p, v)
    \/ LinkFlush

SpecLink == InitLink /\ [][NextLink]_vars

\* the sub-fields written in the sequence h of writes, each with the value
\* written to it last
RECURSIVE Latest(_)
Latest(h) ==
    IF h = <<>> THEN NoCache
    ELSE Merge(Latest(SubSeq(h, 1, Len(h) - 1)), h[Len(h)].p, h[Len(h)].v)

LastLinkOp == lw[Len(lw)]
PutsOfLast == SubSeq(puts, LastLinkOp.pre + 1, Len(puts))

\* C9: with defer=true a write starts no Put and is merged into the cache
\* by sub-field, and the next flush starts exactly one Put that carries
\* every sub-field written since the previous flush; with defer=false every
\* write starts one Put of its own.
C9_DeferPut ==
    lw /= <<>> =>
        /\ (ldefer /\ LastLinkOp.op = "write") =>
               /\ PutsOfLast = <<>>
               /\ lcache = Latest(lhist)
        /\ (ldefer /\ LastLinkOp.op = "flush" /\ LastLinkOp.hist /= <<>>) =>
               /\ PutsOfLast = <<Latest(LastLinkOp.hist)>>
               /\ lcache = NoCache
        /\ (~ldefer /\ LastLinkOp.op = "write") =>
               /\ Len(PutsOfLast) = 1
               /\ PutsOfLast[1] = Latest(<<lhist[Len(lhist)]>>)
        /\ ~ldefer =>
               Len(puts) = Cardinality({i \in 1..Len(lw) : lw[i].op = "write"})
        /\ ldefer =>
               Len(puts) = Cardinality({i \in 1..Len(lw) :
                   lw[i].op = "flush" /\ lw[i].hist /= <<>>})

\* a deferring link was written at X, then at Y, then flushed: one Put
\* with both
C9_Witness ==
    /\ ldefer /\ Len(lw) = 3 /\ LastLinkOp.op = "flush"
    /\ Len(LastLinkOp.hist) = 2
    /\ LastLinkOp.hist[1].p = "X" /\ LastLinkOp.hist[2].p = "Y"
    /\ Len(puts) = 1 /\ DOMAIN puts[1] = {"X", "Y"}

----------------------------------------------------------------------------
(* PVA input links: monorder *)

\* number of links on the target PV
MaxLinks == 3

Monorders == {-1, 0, 1}

\* position at which a link of rank r joins list l, itself ordered by rank:
\* after every link of rank <= r
RECURSIVE InsertAt(_, _)
InsertAt(l, r) ==
    IF l = <<>> \/ l[1].monorder > r THEN 1 ELSE 1 + InsertAt(Tail(l), r)

\* faulty variant: the links are kept in registration order, whatever
\* their rank
link_add_append(l, e) == Append(l, e)

\* the links of a target PV are kept in processing order
link_add(l, e) ==
    SubSeq(l, 1, InsertAt(l, e.monorder) - 1) \o <<e>>
        \o SubSeq(l, InsertAt(l, e.monorder), Len(l))

\* the records processed by one subscription update, in order
RECURSIVE scan_links(_)
scan_links(l) ==
    IF l = <<>> THEN <<>>
    ELSE (IF l[1].proc THEN <<l[1].id>> ELSE <<>>) \o scan_links(Tail(l))

OthersM == UNCHANGED <<asVars, stampVars, groupVars, linkVars>>

\* a record's input link {pva:{pv:"tgt", monorder:r, proc:...}} is opened;
\* id counts the registrations
LinkOpen(r, proc) ==
    /\ Len(mlinks) < MaxLinks
    /\ mlinks' = link_add(mlinks,
                     [id |-> Len(mlinks) + 1, monorder |-> r, proc |-> proc])
    /\ procLog' = <<>>
    /\ OthersM

\* a subscription update of the target PV arrives
MonitorUpdate ==
    /\ mlinks /= <<>>
    /\ procLog' = scan_links(mlinks)
    /\ UNCHANGED mlinks
    /\ OthersM

InitMon ==
    /\ InitA /\ IdleStamp /\ IdleGroup /\ IdleLink
    /\ mlinks = <<>>
    /\ procLog = <<>>

NextMon ==
    \/ \E r \in Monorders, proc \in BOOLEAN : LinkOpen(r, proc)
    \/ MonitorUpdate

SpecMon == InitMon /\ [][NextMon]_vars

\* the link registered as number i
LinkOf(i) == CHOOSE e \in {mlinks[j] : j \in 1..Len(mlinks)} : e.id = i

\* C10: on every update, for every registration order, the links requesting
\* processing are processed in ascending monorder rank, and links of equal
\* rank in registration order.
C10_Monorder ==
    /\ \A i, j \in 1..Len(procLog) :
           i < j =>
               \/ LinkOf(procLog[i]).monorder < LinkOf(procLog[j]).monorder
               \/ /\ LinkOf(procLog[i]).monorder = LinkOf(procLog[j]).monorder
                  /\ procLog[i] < procLog[j]
    /\ \A i \in 1..Len(procLog) : LinkOf(procLog[i]).proc
    /\ procLog /= <<>> =>
           Len(procLog) = Cardinality({i \in 1..Len(mlinks) : mlinks[i].proc})

\* the link with monorder 0 registered first, the one with -1 second, a
\* second one of rank 0 third: processed as 2, 1, 3
C10_Witness ==
    /\ Len(mlinks) = 3 /\ procLog = <<2, 1, 3>>
    /\ LinkOf(1).monorder = 0 /\ LinkOf(2).monorder = -1
    /\ LinkOf(3).monorder = 0

====
